---- MODULE Spec2Model ----
(***************************************************************************)
(* Integer division with a rounding kind and a cumulative error            *)
(* (src/src/lib.rs).  The functions are generic over the primitive signed  *)
(* integers; the model instantiates them at a width of Bits bits, two's    *)
(* complement, and keeps every operation's overflow behaviour.             *)
(***************************************************************************)
EXTENDS Integers, FiniteSets, Sequences, TLC

\* Width of the signed integer type I the functions are instantiated at.
Bits == 4

\* The caller's running sum of dividends stays within SumFactor times the
\* magnitude of the most negative value of I.
SumFactor == 2

---------------------------------------------------------------------------
\* The integer type I

Pow2(n) == 2 ^ n

MIN == -Pow2(Bits - 1)

MAX == Pow2(Bits - 1) - 1

\* Largest value of the unsigned type of the same width (unsigned_abs).
UMAX == Pow2(Bits) - 1

IntW == MIN .. MAX

InRange(n) == MIN <= n /\ n <= MAX

\* Two's complement wrap-around of an unbounded result (release build).
wrap(n) == ((n - MIN) % Pow2(Bits)) + MIN

Rounding == {"Round", "Floor", "Ceiling", "TowardsZero", "AwayFromZero"}

Some(v) == [kind |-> "Some", val |-> v]

None == [kind |-> "None"]

\* The value of a call that the debug build aborts on arithmetic overflow.
Panic == [kind |-> "Panic"]

\* No call made yet.
Pending == [kind |-> "Pending"]

---------------------------------------------------------------------------
\* Primitive operations of I

\* Mutant of unsigned_abs: the signed abs, which leaves MIN negative.
wrapping_abs(a) == IF a < 0 THEN wrap(-a) ELSE a

\* i8::unsigned_abs etc.: the magnitude as a value of the unsigned type.
unsigned_abs(a) == IF a < 0 THEN (Pow2(Bits) - (a % Pow2(Bits))) % Pow2(Bits) ELSE a

\* checked_add / checked_sub of I, and checked_add of the unsigned type.
checked_add(a, b) == IF InRange(a + b) THEN Some(a + b) ELSE None

checked_sub(a, b) == IF InRange(a - b) THEN Some(a - b) ELSE None

unsigned_checked_add(a, b) == IF a + b <= UMAX THEN Some(a + b) ELSE None

\* Truncating division and its remainder (Rust's / and % on signed integers).
trunc_div(a, b) ==
    LET ua == IF a < 0 THEN -a ELSE a
        ub == IF b < 0 THEN -b ELSE b
        uq == ua \div ub
    IN  IF (a < 0) = (b < 0) THEN uq ELSE -uq

trunc_rem(a, b) == a - b * trunc_div(a, b)

\* checked_div: None on a zero divisor and on MIN / -1.
\* Mutants of checked_div: the wrapping and the saturating quotient of MIN / -1.
checked_div_wrapping(a, b) ==
    IF b = 0 THEN None ELSE Some(wrap(trunc_div(a, b)))

checked_div_saturating(a, b) ==
    IF b = 0 THEN None
    ELSE IF a = MIN /\ b = -1 THEN Some(MAX)
    ELSE Some(trunc_div(a, b))

checked_div(a, b) ==
    IF b = 0 THEN None
    ELSE IF a = MIN /\ b = -1 THEN None
    ELSE Some(trunc_div(a, b))

\* Bitwise exclusive or of two values of I, on their two's complement bits.
RECURSIVE xor_bits(_, _, _)
xor_bits(ua, ub, n) ==
    IF n = 0 THEN 0
    ELSE (((ua % 2) + (ub % 2)) % 2) + 2 * xor_bits(ua \div 2, ub \div 2, n - 1)

bitxor(a, b) ==
    LET u == xor_bits(a % Pow2(Bits), b % Pow2(Bits), Bits)
    IN  IF u >= Pow2(Bits - 1) THEN u - Pow2(Bits) ELSE u

is_positive(a) == a > 0

\* Mutant of is_zero: the early return on a zero remainder is never taken.
is_zero_never(a) == FALSE

is_zero(a) == a = 0

---------------------------------------------------------------------------
\* The magnitude comparators

\* Mutant of cmp_abs_ge: a strict comparison.
cmp_abs_gt(a, b) == unsigned_abs(a) > unsigned_abs(b)

cmp_abs_ge(a, b) == unsigned_abs(a) >= unsigned_abs(b)

\* Mutant of cmp_abs_half_ge: a strict comparison (ties towards zero).
cmp_abs_half_gt(a, b) ==
    LET ua == unsigned_abs(a)
        a2 == unsigned_checked_add(ua, ua)
    IN  IF a2 = None THEN TRUE ELSE a2.val > unsigned_abs(b)

cmp_abs_half_ge(a, b) ==
    LET ua == unsigned_abs(a)
        a2 == unsigned_checked_add(ua, ua)
    IN  IF a2 = None THEN TRUE ELSE a2.val >= unsigned_abs(b)

\* Mutant of add_cmp_abs_lt: abs(a + b) <= abs(b).
add_cmp_abs_le(a, b) ==
    LET n == checked_add(a, b)
    IN  IF n = None THEN FALSE ELSE cmp_abs_ge(b, n.val)

add_cmp_abs_lt(a, b) ==
    LET n == checked_add(a, b)
    IN  IF n = None THEN FALSE ELSE ~cmp_abs_ge(n.val, b)

\* Mutants of sub_cmp_abs_lt: abs(a - b) <= abs(b), and the comparison on
\* the wrapped difference.
sub_cmp_abs_le(a, b) ==
    LET n == checked_sub(a, b)
    IN  IF n = None THEN FALSE ELSE cmp_abs_ge(b, n.val)

sub_cmp_abs_lt_wrapping(a, b) == ~cmp_abs_ge(wrap(a - b), b)

sub_cmp_abs_lt(a, b) ==
    LET n == checked_sub(a, b)
    IN  IF n = None THEN FALSE ELSE ~cmp_abs_ge(n.val, b)

same_sign(a, b) == is_positive(bitxor(a, b))

---------------------------------------------------------------------------
\* checked_divide_with_rounding

\* q + I::ONE and q - I::ONE: the wrapped value, and whether it overflowed.
q_plus_one(q) == [ret |-> Some(wrap(q + 1)), trap |-> ~InRange(q + 1)]

q_minus_one(q) == [ret |-> Some(wrap(q - 1)), trap |-> ~InRange(q - 1)]

q_same(q) == [ret |-> Some(q), trap |-> FALSE]

round_quotient(left, right, rounding, q, remain) ==
    CASE rounding = "Floor" ->
            IF same_sign(left, right) THEN q_same(q) ELSE q_minus_one(q)
      [] rounding = "Ceiling" ->
            IF same_sign(left, right) THEN q_plus_one(q) ELSE q_same(q)
      [] rounding = "Round" ->
            IF cmp_abs_half_ge(remain, right)
            THEN IF same_sign(left, right) THEN q_plus_one(q) ELSE q_minus_one(q)
            ELSE q_same(q)
      [] rounding = "TowardsZero" -> q_same(q)
      [] rounding = "AwayFromZero" ->
            IF same_sign(left, right) THEN q_plus_one(q) ELSE q_minus_one(q)

checked_divide_with_rounding(left, right, rounding) ==
    LET d == checked_div(left, right)
    IN  IF d = None THEN [ret |-> None, trap |-> FALSE]
        ELSE LET q == d.val
                 remain == trunc_rem(left, right)
             IN  IF is_zero(remain) THEN q_same(q)
                 ELSE round_quotient(left, right, rounding, q, remain)

---------------------------------------------------------------------------
\* checked_divide_with_cum_error

\* The outcome of a call: the returned value, the accumulator it leaves, the
\* path it took, whether an unchecked + or - overflowed, and the accumulator
\* at the point of the first overflow (where the debug build aborts).
Outcome(ret, cum, path, trap, panic_cum) ==
    [ret |-> ret, cum_error |-> cum, path |-> path, trap |-> trap,
     panic_cum |-> panic_cum]

\* Mutant of sub_right_inc: the divisor is subtracted, the quotient is not incremented.
sub_right_keep_q(cum, q, right) ==
    Outcome(Some(q), wrap(cum - right), "policy", ~InRange(cum - right),
            IF InRange(cum - right) THEN cum - right ELSE cum)

\* *cum_error -= right; q += I::ONE
sub_right_inc(cum, q, right) ==
    Outcome(Some(wrap(q + 1)), wrap(cum - right), "policy",
            ~InRange(cum - right) \/ ~InRange(q + 1),
            IF InRange(cum - right) THEN cum - right ELSE cum)

\* Mutant of add_right_dec: the divisor is added, the quotient is not decremented.
add_right_keep_q(cum, q, right) ==
    Outcome(Some(q), wrap(cum + right), "policy", ~InRange(cum + right),
            IF InRange(cum + right) THEN cum + right ELSE cum)

\* *cum_error += right; q -= I::ONE
add_right_dec(cum, q, right) ==
    Outcome(Some(wrap(q - 1)), wrap(cum + right), "policy",
            ~InRange(cum + right) \/ ~InRange(q - 1),
            IF InRange(cum + right) THEN cum + right ELSE cum)

no_adjust(cum, q) == Outcome(Some(q), cum, "policy", FALSE, cum)

\* Mutants of overflow_fallback: the two branches swapped, and the quotient
\* returned without the one-unit correction.
overflow_fallback_swapped(left, right, q, remain, cum) ==
    IF ~same_sign(left, right)
    THEN LET delta == remain - right
             sum == cum + wrap(delta)
             early == ~InRange(delta) \/ ~InRange(sum)
         IN  Outcome(Some(wrap(q + 1)), wrap(sum), "fallback",
                     early \/ ~InRange(q + 1),
                     IF early THEN cum ELSE sum)
    ELSE LET delta == remain + right
             sum == cum + wrap(delta)
             early == ~InRange(delta) \/ ~InRange(sum)
         IN  Outcome(Some(wrap(q - 1)), wrap(sum), "fallback",
                     early \/ ~InRange(q - 1),
                     IF early THEN cum ELSE sum)

overflow_fallback_keep_q(left, right, q, remain, cum) ==
    LET delta == IF same_sign(left, right) THEN remain - right ELSE remain + right
        sum == cum + wrap(delta)
        early == ~InRange(delta) \/ ~InRange(sum)
    IN  Outcome(Some(q), wrap(sum), "fallback", early, IF early THEN cum ELSE sum)

\* The overflow fallback: cum_error + remain is not representable.
overflow_fallback(left, right, q, remain, cum) ==
    IF same_sign(left, right)
    THEN LET delta == remain - right
             sum == cum + wrap(delta)
             early == ~InRange(delta) \/ ~InRange(sum)
         IN  Outcome(Some(wrap(q + 1)), wrap(sum), "fallback",
                     early \/ ~InRange(q + 1),
                     IF early THEN cum ELSE sum)
    ELSE LET delta == remain + right
             sum == cum + wrap(delta)
             early == ~InRange(delta) \/ ~InRange(sum)
         IN  Outcome(Some(wrap(q - 1)), wrap(sum), "fallback",
                     early \/ ~InRange(q - 1),
                     IF early THEN cum ELSE sum)

\* The match on the rounding kind, on the accumulator cum = cum_error + remain.
round_cum_error(left, right, rounding, q, cum) ==
    CASE rounding = "Floor" ->
            IF same_sign(left, right)
            THEN IF cmp_abs_ge(cum, right)
                 THEN sub_right_inc(cum, q, right) ELSE no_adjust(cum, q)
            ELSE IF add_cmp_abs_lt(cum, right)
                 THEN add_right_dec(cum, q, right) ELSE no_adjust(cum, q)
      [] rounding = "Ceiling" ->
            IF same_sign(left, right)
            THEN IF sub_cmp_abs_lt(cum, right)
                 THEN sub_right_inc(cum, q, right) ELSE no_adjust(cum, q)
            ELSE IF cmp_abs_ge(cum, right)
                 THEN add_right_dec(cum, q, right) ELSE no_adjust(cum, q)
      [] rounding = "Round" ->
            IF cmp_abs_half_ge(cum, right)
            THEN IF same_sign(left, right)
                 THEN sub_right_inc(cum, q, right)
                 ELSE add_right_dec(cum, q, right)
            ELSE no_adjust(cum, q)
      [] rounding = "TowardsZero" ->
            IF cmp_abs_ge(cum, right)
            THEN IF same_sign(left, right)
                 THEN sub_right_inc(cum, q, right)
                 ELSE add_right_dec(cum, q, right)
            ELSE no_adjust(cum, q)
      [] rounding = "AwayFromZero" ->
            IF same_sign(left, right)
            THEN IF sub_cmp_abs_lt(cum, right)
                 THEN sub_right_inc(cum, q, right) ELSE no_adjust(cum, q)
            ELSE IF add_cmp_abs_lt(cum, right)
                 THEN add_right_dec(cum, q, right) ELSE no_adjust(cum, q)

checked_divide_with_cum_error(left, right, rounding, cum) ==
    LET d == checked_div(left, right)
    IN  IF d = None THEN Outcome(None, cum, "fail", FALSE, cum)
        ELSE LET q == d.val
                 remain == trunc_rem(left, right)
                 tmpsum == checked_add(cum, remain)
             IN  IF is_zero(remain) THEN Outcome(Some(q), cum, "exact", FALSE, cum)
                 ELSE IF tmpsum = None
                      THEN overflow_fallback(left, right, q, remain, cum)
                      ELSE round_cum_error(left, right, rounding, q, tmpsum.val)

---------------------------------------------------------------------------
\* State

VARIABLES
    right,          \* the divisor of the stream (b of the tests)
    rounding,       \* the rounding kind of the stream
    cum_error,      \* the caller-owned accumulator
    isum,           \* sum of the dividends divided so far (unbounded)
    ret,            \* sum of the quotients returned so far (unbounded)
    sign_hist,      \* signs of the non-zero dividends divided so far
    fallback_taken, \* some call of the stream took the overflow fallback
    path,           \* path the last call took
    trap,           \* an unchecked + or - of the last call overflowed
    min_by_m1,      \* the last call divided MIN by -1
    left,           \* dividend of the single call (single-call runs)
    result,         \* value of the single call (single-call runs)
    cum_before      \* accumulator before the single call (single-call runs)

vars == <<right, rounding, cum_error, isum, ret, sign_hist, fallback_taken,
          path, trap, min_by_m1, left, result, cum_before>>

\* Release builds wrap on overflow, debug builds abort the call.
Builds == {"debug", "release"}

SumCap == SumFactor * Pow2(Bits - 1)

next_sign(h, x) ==
    IF x = 0 THEN h
    ELSE LET s == IF x > 0 THEN "pos" ELSE "neg"
         IN  IF h = "none" \/ h = s THEN s ELSE "mixed"

\* The effect of one call checked_divide_with_cum_error(x, right, rounding,
\* &mut cum_error) with outcome o, and the caller's bookkeeping of the sums
\* (ret += q; isum += ix).
Divide(x, build, o) ==
    LET aborted == o.trap /\ build = "debug"
        returned == o.ret.kind = "Some" /\ ~aborted
    IN  /\ cum_error' = IF aborted THEN o.panic_cum ELSE o.cum_error
        /\ path' = IF aborted THEN "panic" ELSE o.path
        /\ trap' = o.trap
        /\ min_by_m1' = (x = MIN /\ right = -1)
        /\ isum' = IF returned THEN isum + x ELSE isum
        /\ ret' = IF returned THEN ret + o.ret.val ELSE ret
        /\ sign_hist' = IF returned THEN next_sign(sign_hist, x) ELSE sign_hist
        /\ fallback_taken' = (fallback_taken \/ o.path = "fallback")
        /\ UNCHANGED <<right, rounding>>

\* The builds whose outcome differs: both when an unchecked operation overflowed.
builds_of(o) == IF o.trap THEN Builds ELSE {"release"}

Init ==
    /\ right \in IntW
    /\ rounding \in Rounding
    /\ cum_error = 0
    /\ isum = 0
    /\ ret = 0
    /\ sign_hist = "none"
    /\ fallback_taken = FALSE
    /\ path = "idle"
    /\ trap = FALSE
    /\ min_by_m1 = FALSE
    /\ left = 0
    /\ result = Pending
    /\ cum_before = 0

\* The next division of a stream that shares one accumulator.
Call ==
    /\ path # "panic"
    /\ \E x \in IntW :
          /\ -SumCap <= isum + x /\ isum + x <= SumCap
          /\ \E o \in {checked_divide_with_cum_error(x, right, rounding, cum_error)} :
                \E build \in builds_of(o) : Divide(x, build, o)
    /\ UNCHANGED <<left, result, cum_before>>

Next == Call

Spec == Init /\ [][Next]_vars

---------------------------------------------------------------------------
\* Single calls on arbitrary operands and an arbitrary accumulator

InitCall ==
    /\ right \in IntW
    /\ rounding \in Rounding
    /\ cum_error \in IntW
    /\ isum = 0
    /\ ret = 0
    /\ sign_hist = "none"
    /\ fallback_taken = FALSE
    /\ path = "idle"
    /\ trap = FALSE
    /\ min_by_m1 = FALSE
    /\ left = 0
    /\ result = Pending
    /\ cum_before = 0

CumErrorCall ==
    /\ result = Pending
    /\ \E x \in IntW :
          \E o \in {checked_divide_with_cum_error(x, right, rounding, cum_error)} :
             \E build \in builds_of(o) :
                /\ Divide(x, build, o)
                /\ left' = x
                /\ result' = IF o.trap /\ build = "debug" THEN Panic ELSE o.ret
                /\ cum_before' = cum_error

\* checked_divide(left, right, rounding, None): no accumulator takes part.
RoundingCall ==
    /\ result = Pending
    /\ cum_error = 0
    /\ \E x \in IntW :
          \E o \in {checked_divide_with_rounding(x, right, rounding)} :
             \E build \in builds_of(o) :
                /\ left' = x
                /\ result' = IF o.trap /\ build = "debug" THEN Panic ELSE o.ret
                /\ trap' = o.trap
                /\ path' = "rounding"
                /\ min_by_m1' = (x = MIN /\ right = -1)
    /\ UNCHANGED <<right, rounding, cum_error, isum, ret, sign_hist,
                   fallback_taken, cum_before>>

NextCall == CumErrorCall \/ RoundingCall

SpecCall == InitCall /\ [][NextCall]_vars

---------------------------------------------------------------------------
\* The mathematical quotients the claims compare the code with, on unbounded
\* integers: k against the exact rational n / d, by cross-multiplication.

Abs(n) == IF n < 0 THEN -n ELSE n

\* k <= n / d and k >= n / d
LeQuot(k, n, d) == IF d > 0 THEN k * d <= n ELSE k * d >= n

GeQuot(k, n, d) == IF d > 0 THEN k * d >= n ELSE k * d <= n

\* The sign of k is not opposite to the sign of n / d.
SignAgrees(k, n, d) == (k > 0 => (n > 0) = (d > 0)) /\ (k < 0 => n # 0 /\ (n > 0) # (d > 0))

IsFloor(k, n, d) == LeQuot(k, n, d) /\ ~LeQuot(k + 1, n, d)

IsCeiling(k, n, d) == GeQuot(k, n, d) /\ ~GeQuot(k - 1, n, d)

IsTowardsZero(k, n, d) ==
    /\ SignAgrees(k, n, d)
    /\ Abs(k) * Abs(d) <= Abs(n)
    /\ (Abs(k) + 1) * Abs(d) > Abs(n)

IsAwayFromZero(k, n, d) ==
    /\ SignAgrees(k, n, d)
    /\ Abs(k) * Abs(d) >= Abs(n)
    /\ (k # 0 => (Abs(k) - 1) * Abs(d) < Abs(n))

IsRound(k, n, d) ==
    /\ 2 * Abs(n - k * d) <= Abs(d)
    /\ (2 * Abs(n - k * d) = Abs(d) => Abs(k) * Abs(d) > Abs(n))

IsRounded(k, n, d, p) ==
    CASE p = "Floor" -> IsFloor(k, n, d)
      [] p = "Ceiling" -> IsCeiling(k, n, d)
      [] p = "TowardsZero" -> IsTowardsZero(k, n, d)
      [] p = "AwayFromZero" -> IsAwayFromZero(k, n, d)
      [] p = "Round" -> IsRound(k, n, d)

\* d divides n exactly.
Divides(d, n) == n % Abs(d) = 0

\* The sum of the quotients is what one division of the sum of the dividends
\* returns, and the accumulator is its remainder (sums representable in I).
Aggregate ==
    /\ checked_divide_with_rounding(isum, right, rounding).ret = Some(ret)
    /\ cum_error = isum - right * ret

SumsRepresentable == InRange(isum) /\ InRange(ret)

---------------------------------------------------------------------------
\* C1 as stated: for every rounding kind, every divisor other than 0 and
\* every sequence of dividends of any signs, as long as no call took the
\* overflow fallback and the sums are representable, the sum of the quotients
\* equals checked_divide_with_rounding of the sum of the dividends and the
\* accumulator equals the sum of the dividends minus divisor times the sum of
\* the quotients.
C1_AggregateAnySigns ==
    (right # 0 /\ ~fallback_taken /\ SumsRepresentable) => Aggregate

\* C1 amended: under the same conditions the accumulator always equals the
\* sum of the dividends minus divisor times the sum of the quotients, and
\* the sum of the quotients equals the rounded quotient of the sum when the
\* non-zero dividends all have one sign or the kind is Floor or Ceiling.
C1_AggregateOneSignOrFloorCeiling ==
    (right # 0 /\ ~fallback_taken /\ SumsRepresentable) =>
        /\ cum_error = isum - right * ret
        /\ (sign_hist # "mixed" \/ rounding \in {"Floor", "Ceiling"}) => Aggregate

\* A Floor stream of dividends of both signs whose quotients add up to the
\* floor of the sum, with a non-zero accumulator.
C1_Witness ==
    /\ rounding = "Floor" /\ sign_hist = "mixed" /\ ~fallback_taken
    /\ right = -3 /\ isum = 4 /\ ret = -2 /\ cum_error = -2
    /\ path = "policy"

\* The quotients of -7 / 2 under the five rounding kinds.
MinusSevenByTwo ==
    [p \in Rounding |->
        CASE p = "Floor" -> -4
          [] p = "Ceiling" -> -3
          [] p = "TowardsZero" -> -3
          [] p = "AwayFromZero" -> -4
          [] p = "Round" -> -4]

\* C2: for right # 0 and (left, right) # (MIN, -1), checked_divide_with_rounding
\* returns the exact rational left / right rounded by the kind: Floor the
\* greatest integer below or equal, Ceiling the least integer above or equal,
\* TowardsZero the truncation, AwayFromZero the integer of least magnitude not
\* below the magnitude of the quotient, Round the nearest integer with ties
\* away from zero.
C2_RoundingIsExact ==
    (path = "rounding" /\ right # 0 /\ ~(left = MIN /\ right = -1)) =>
        /\ result.kind = "Some"
        /\ IsRounded(result.val, left, right, rounding)
        /\ (left = -7 /\ right = 2) => result.val = MinusSevenByTwo[rounding]

\* -7 / 2 under Round is a tie and gives -4.
C2_Witness ==
    /\ path = "rounding" /\ rounding = "Round"
    /\ left = -7 /\ right = 2 /\ result = Some(-4)

\* C3: with one divisor other than 0 and one rounding kind on an accumulator
\* that starts at 0, after every call that did not take the overflow fallback
\* the accumulator is smaller in magnitude than the divisor, and for Round
\* at most half the divisor's magnitude.
C3_AccumulatorBound ==
    (right # 0 /\ path \in {"exact", "policy", "fail"}) =>
        IF rounding = "Round"
        THEN 2 * Abs(cum_error) <= Abs(right)
        ELSE Abs(cum_error) < Abs(right)

\* A Round call after an earlier fallback that leaves exactly half the divisor.
C3_Witness ==
    /\ rounding = "Round" /\ path = "policy" /\ fallback_taken
    /\ 2 * Abs(cum_error) = Abs(right)

\* C4: when right # 0 divides left exactly (other than MIN / -1), both
\* functions return exactly left / right, and checked_divide_with_cum_error
\* leaves the accumulator as it was, whatever it was.
C4_Exactness ==
    (result # Pending /\ right # 0 /\ ~(left = MIN /\ right = -1)
       /\ Divides(right, left)) =>
        /\ result.kind = "Some"
        /\ result.val * right = left
        /\ cum_error = cum_before \/ path = "rounding"

\* An exact division by checked_divide_with_cum_error on a non-zero
\* accumulator under Ceiling.
C4_Witness ==
    /\ path = "exact" /\ rounding = "Ceiling"
    /\ left = 6 /\ right = 3 /\ result = Some(2)
    /\ cum_before = MAX /\ cum_error = MAX

\* C5: both functions return the failure value exactly when the divisor is 0
\* or the dividend is MIN and the divisor -1, and a failing
\* checked_divide_with_cum_error leaves the accumulator unchanged.
C5_FailureConditions ==
    (result # Pending) =>
        /\ (result = None) <=> (right = 0 \/ (left = MIN /\ right = -1))
        /\ (result = None /\ path # "rounding") => cum_error = cum_before

\* MIN / -1 by checked_divide_with_cum_error on a non-zero accumulator.
C5_Witness ==
    /\ path = "fail" /\ result = None
    /\ left = MIN /\ right = -1 /\ cum_before = 3 /\ cum_error = 3

\* The values either function returns for MIN / -1.
UnrepresentableOutcomes ==
    {checked_divide_with_rounding(MIN, -1, p).ret : p \in Rounding}
      \cup {checked_divide_with_cum_error(MIN, -1, p, c).ret :
               p \in Rounding, c \in IntW}

\* C6 as stated: a zero divisor and an unrepresentable quotient are reported
\* by different outcomes, so the value returned for a zero divisor is never a
\* value returned for MIN / -1.
C6_DistinctErrorKinds ==
    (result # Pending /\ right = 0) => result \notin UnrepresentableOutcomes

\* C6 amended: a call with divisor 0 and a call of MIN / -1 both yield the one
\* failure value None, so the returned value does not tell the caller which
\* of the two failures occurred.
C6_OneFailureValue ==
    (result # Pending /\ (right = 0 \/ (left = MIN /\ right = -1))) =>
        /\ result = None
        /\ UnrepresentableOutcomes = {None}

\* 5 / 0 by checked_divide_with_rounding.
C6_Witness ==
    /\ path = "rounding" /\ left = 5 /\ right = 0 /\ result = None

\* C7: for every rounding kind, every divisor other than 0 and every sequence
\* of dividends whose non-zero members all have one sign, with the sums
\* representable, after every call the sum of the quotients equals
\* checked_divide_with_rounding of the sum of the dividends and the
\* accumulator equals the sum of the dividends minus the sum of the quotients
\* times the divisor.
C7_AggregateOneSign ==
    (right # 0 /\ sign_hist \in {"pos", "neg"} /\ SumsRepresentable) => Aggregate

\* Dividends 2, 2, 2 by 3 under Round (the 20, 20, 20 by 3 example scaled to
\* the width): the sum 6 has quotient 2 and the accumulator is back at 0.
C7_Witness ==
    /\ rounding = "Round" /\ right = 3 /\ sign_hist = "pos"
    /\ isum = 6 /\ ret = 2 /\ cum_error = 0 /\ path = "policy"

\* C8: for every rounding kind and every divisor other than 0, MIN and MAX
\* included, on an accumulator that starts at 0, every call other than
\* MIN / -1 returns a quotient and none of its additions and subtractions on
\* the quotient or the accumulator overflows.
C8_NoTrap ==
    (right # 0 /\ path # "idle" /\ ~min_by_m1) =>
        /\ path \in {"exact", "policy", "fallback"}
        /\ ~trap

\* A call that took the overflow fallback with divisor MIN.
C8_Witness ==
    /\ right = MIN /\ path = "fallback" /\ ~trap /\ sign_hist = "mixed"

\* The truncating quotient and remainder on unbounded integers.
TruncQuot(n, d) ==
    IF (n >= 0) = (d > 0) THEN Abs(n) \div Abs(d) ELSE -(Abs(n) \div Abs(d))

TruncRem(n, d) == n - d * TruncQuot(n, d)

\* C9: for every rounding kind and every accumulator value, when the
\* remainder r of left / right is not 0 and accumulator + r is not
\* representable, checked_divide_with_cum_error returns q + 1 and adds
\* r - right to the accumulator when left and right have the same sign, and
\* returns q - 1 and adds r + right otherwise; nothing overflows, so
\* left + accumulator before = quotient * right + accumulator after.
C9_FallbackStep ==
    LET q == TruncQuot(left, right)
        r == TruncRem(left, right)
    IN  (result # Pending /\ path # "rounding" /\ right # 0
           /\ ~(left = MIN /\ right = -1) /\ r # 0 /\ ~InRange(cum_before + r)) =>
            /\ ~trap
            /\ IF (left > 0) = (right > 0)
               THEN /\ result = Some(q + 1)
                    /\ InRange(r - right)
                    /\ cum_error = cum_before + (r - right)
               ELSE /\ result = Some(q - 1)
                    /\ InRange(r + right)
                    /\ cum_error = cum_before + (r + right)
            /\ InRange(cum_error) /\ InRange(result.val)
            /\ left + cum_before = result.val * right + cum_error

\* A fallback under TowardsZero with operands of different signs on an
\* accumulator at MIN.
C9_Witness ==
    /\ path = "fallback" /\ rounding = "TowardsZero"
    /\ cum_before = MIN /\ left < 0 /\ right > 0 /\ result.kind = "Some"

\* The aggregate identity on unbounded integers: the sum of the quotients is
\* the rounded quotient of the sum of the dividends, the accumulator its
\* remainder.
AggregateUnbounded ==
    /\ IsRounded(ret, isum, right, rounding)
    /\ cum_error = isum - right * ret

\* A step of the stream is a call that took the overflow fallback.
FallbackCall == path' = "fallback" /\ isum' # isum

\* C10 as stated: with one divisor and one rounding kind on an accumulator
\* that starts at 0, when the aggregate identity holds before a call and the
\* call takes the overflow fallback, the identity holds after the call.
C10_FallbackPreservesAggregate ==
    [][(AggregateUnbounded /\ FallbackCall) => AggregateUnbounded']_vars

\* C10 amended: the same for every rounding kind other than AwayFromZero;
\* under AwayFromZero the call still leaves the accumulator equal to the sum
\* of the dividends minus divisor times the sum of the quotients.
C10_FallbackPreservesAggregateButAway ==
    [][(AggregateUnbounded /\ FallbackCall) =>
          /\ cum_error' = isum' - right * ret'
          /\ rounding # "AwayFromZero" => AggregateUnbounded']_vars

\* A call that took the fallback, leaving sums beyond the width for which
\* the identity holds.
C10_Witness ==
    /\ path = "fallback" /\ AggregateUnbounded /\ ~InRange(isum)
    /\ rounding = "Round" /\ right = MIN

---------------------------------------------------------------------------
\* Floor and AwayFromZero on operands of different signs

\* The accumulator after the remainder of the single call was added.
AccWithRemainder == cum_before + TruncRem(left, right)

\* a + b is representable and |a + b| < |b|.
SumMagnitudeLess(a, b) == InRange(a + b) /\ Abs(a + b) < Abs(b)

\* The single call ran the policy match of Floor or AwayFromZero on a
\* dividend and a divisor of different signs.
FloorOrAwayDifferentSigns ==
    /\ path = "policy" /\ result.kind = "Some"
    /\ rounding \in {"Floor", "AwayFromZero"}
    /\ (left > 0) # (right > 0)

\* The call added the divisor to the accumulator and took one from the quotient.
AddedDivisor ==
    /\ cum_error = AccWithRemainder + right
    /\ result = Some(TruncQuot(left, right) - 1)

\* The call left the accumulator and the quotient as they were.
KeptQuotient ==
    /\ cum_error = AccWithRemainder
    /\ result = Some(TruncQuot(left, right))

\* C11 as stated: under Floor and AwayFromZero, with dividend and divisor of
\* different signs, a non-zero remainder and no fallback, the call adds the
\* divisor to the accumulator and decrements the quotient exactly when
\* NOT(acc + divisor is representable and |acc + divisor| < |divisor|), acc
\* being the accumulator after the remainder was added; otherwise both keep
\* their values.
C11_AdjustWhenNotLess ==
    FloorOrAwayDifferentSigns =>
        IF ~SumMagnitudeLess(AccWithRemainder, right) THEN AddedDivisor ELSE KeptQuotient

\* C11 amended: the call adds the divisor and decrements the quotient exactly
\* when acc + divisor is representable and |acc + divisor| < |divisor|;
\* otherwise both keep their values.
C11_AdjustWhenLess ==
    FloorOrAwayDifferentSigns =>
        IF SumMagnitudeLess(AccWithRemainder, right) THEN AddedDivisor ELSE KeptQuotient

\* A Floor call on -7 / 2 with accumulator 0 that decremented the quotient.
C11_Witness ==
    /\ FloorOrAwayDifferentSigns /\ rounding = "Floor"
    /\ left = -7 /\ right = 2 /\ cum_before = 0
    /\ result = Some(-4) /\ cum_error = 1

---------------------------------------------------------------------------
\* A stream whose rounding kind changes between the calls

\* The caller passes another rounding kind to the following calls.
ChangePolicy ==
    /\ path # "panic" /\ ~trap
    /\ \E p \in Rounding \ {rounding} : rounding' = p
    /\ UNCHANGED <<right, cum_error, isum, ret, sign_hist, fallback_taken,
                   path, trap, min_by_m1, left, result, cum_before>>

\* The next division of the stream; the stream is followed up to its first
\* overflow of an unchecked operation.
CallNext == ~trap /\ Call

NextPolicies == CallNext \/ ChangePolicy

SpecPolicies == Init /\ [][NextPolicies]_vars

\* A single call that returned a quotient without an overflow of an unchecked
\* operation conserves the error, whatever the accumulator it was given.
PerCallConservation ==
    (result.kind = "Some" /\ path \in {"exact", "policy", "fallback"} /\ ~trap) =>
        left + cum_before = result.val * right + cum_error

\* C12: for any sequence of dividends divided by one divisor with an
\* accumulator that starts at 0, even when the rounding kind changes between
\* the calls and the dividends mix signs, after every call that returned the
\* sum of the dividends is divisor * (sum of the quotients) + accumulator.
C12_StreamConservation ==
    (right # 0 /\ path # "panic") => isum = right * ret + cum_error

---------------------------------------------------------------------------
\* Floor and Ceiling on dividends of any signs

\* The accumulator lies on the side of 0 that the rounding kind and the sign
\* of the divisor fix: Floor leaves a remainder with the sign of the divisor,
\* Ceiling one with the opposite sign.
AccumulatorSide ==
    /\ Abs(cum_error) < Abs(right)
    /\ rounding = "Floor" => cum_error * right >= 0
    /\ rounding = "Ceiling" => cum_error * right <= 0

\* C13: under Floor and under Ceiling, for every divisor other than 0 and
\* every sequence of dividends of any signs (zero and exactly divisible ones
\* included) on an accumulator that starts at 0, while the sums are
\* representable the sum of the quotients is
\* checked_divide_with_rounding(sum of the dividends, divisor, kind), the
\* accumulator is its remainder, and the accumulator lies in [0, |d|) or
\* (-|d|, 0] on the side fixed by the kind and the sign of the divisor.
C13_FloorCeilingAnySigns ==
    (right # 0 /\ rounding \in {"Floor", "Ceiling"} /\ SumsRepresentable) =>
        /\ Aggregate
        /\ AccumulatorSide

\* A Ceiling stream with a negative divisor and dividends of both signs,
\* after an exactly divisible dividend, with a non-zero accumulator.
C13_Witness ==
    /\ rounding = "Ceiling" /\ right = -3 /\ sign_hist = "mixed"
    /\ path = "exact" /\ cum_error = 2 /\ isum = 5 /\ ret = -1

---------------------------------------------------------------------------
\* The adjusted quotient

\* C14: whenever checked_divide_with_rounding or
\* checked_divide_with_cum_error (on any accumulator) goes past the early
\* return for a zero remainder, |right| >= 2 and the truncating quotient q
\* is at most a quarter of the range in magnitude, so q + 1 and q - 1 are
\* representable: the quotient returned is q - 1, q or q + 1 itself, never a
\* wrapped or clamped value, and checked_divide_with_rounding overflows in
\* no unchecked operation.
C14_NoWrappedQuotient ==
    LET q == TruncQuot(left, right)
    IN  /\ (result.kind \in {"Some", "Panic"} /\ TruncRem(left, right) # 0) =>
               /\ Abs(right) >= 2
               /\ 2 * Abs(q) <= Pow2(Bits - 1)
               /\ InRange(q + 1) /\ InRange(q - 1)
        /\ result.kind = "Some" => result.val \in {q - 1, q, q + 1}
        /\ path = "rounding" => ~trap /\ result # Panic

\* (MIN + 1) / 2 under AwayFromZero: a truncating quotient of the largest
\* magnitude that has a remainder, decremented by the call.
C14_Witness ==
    /\ path = "rounding" /\ rounding = "AwayFromZero"
    /\ left = MIN + 1 /\ right = 2
    /\ result = Some(TruncQuot(MIN + 1, 2) - 1)

---------------------------------------------------------------------------
\* The comparators on every pair of values of the width; left and right hold
\* the arguments a and b.

InitCmp ==
    /\ left \in IntW
    /\ right \in IntW
    /\ rounding = "Round"
    /\ cum_error = 0
    /\ isum = 0
    /\ ret = 0
    /\ sign_hist = "none"
    /\ fallback_taken = FALSE
    /\ path = "idle"
    /\ trap = FALSE
    /\ min_by_m1 = FALSE
    /\ result = Pending
    /\ cum_before = 0

\* The four magnitude comparators applied to (a, b).
CmpAbs ==
    /\ result = Pending
    /\ result' = [kind |-> "CmpAbs",
                  ge |-> cmp_abs_ge(left, right),
                  half_ge |-> cmp_abs_half_ge(left, right),
                  add_lt |-> add_cmp_abs_lt(left, right),
                  sub_lt |-> sub_cmp_abs_lt(left, right)]
    /\ path' = "cmp_abs"
    /\ UNCHANGED <<right, rounding, cum_error, isum, ret, sign_hist,
                   fallback_taken, trap, min_by_m1, left, cum_before>>

\* same_sign applied to (a, b).
SameSign ==
    /\ result = Pending
    /\ result' = [kind |-> "Bool", val |-> same_sign(left, right)]
    /\ path' = "same_sign"
    /\ UNCHANGED <<right, rounding, cum_error, isum, ret, sign_hist,
                   fallback_taken, trap, min_by_m1, left, cum_before>>

NextCmp == CmpAbs \/ SameSign

SpecCmp == InitCmp /\ [][NextCmp]_vars

\* C15: for every pair (a, b) of the width, a = MIN and b = MIN included,
\* cmp_abs_ge(a, b) is |a| >= |b|, cmp_abs_half_ge(a, b) is 2|a| >= |b|,
\* add_cmp_abs_lt(a, b) is |a + b| < |b| and sub_cmp_abs_lt(a, b) is
\* |a - b| < |b|, the magnitudes, the sum and the difference being those of
\* unbounded integers.
C15_ComparatorsExact ==
    path = "cmp_abs" =>
        /\ result.ge = (Abs(left) >= Abs(right))
        /\ result.half_ge = (2 * Abs(left) >= Abs(right))
        /\ result.add_lt = (Abs(left + right) < Abs(right))
        /\ result.sub_lt = (Abs(left - right) < Abs(right))

\* The comparators on (MIN, MIN): the doubling and the sum overflow.
C15_Witness ==
    /\ path = "cmp_abs" /\ left = MIN /\ right = MIN
    /\ result.ge /\ result.half_ge /\ ~result.add_lt /\ result.sub_lt

\* C16: for all a and b other than 0, same_sign(a, b) is true if and only if
\* a and b are both positive or both negative, a = b included.
C16_SameSignExact ==
    (path = "same_sign" /\ left # 0 /\ right # 0) =>
        result.val = ((left > 0) = (right > 0))

\* What the code does: same_sign(a, b) is true if and only if a and b are
\* both positive or both negative and differ.
SameSignUnlessEqual ==
    (path = "same_sign" /\ left # 0 /\ right # 0) =>
        result.val = ((left > 0) = (right > 0) /\ left # right)

====
